---- MODULE Spec2Model ----
(***************************************************************************)
(* A model of quantinv.py: the fund time-series store (class DBFund), the  *)
(* report builder (DBFund.make_repo), the return derivation of the scraper *)
(* (EMFund._scrape_data) and the top-level run (__main__, inject_to_db).   *)
(*                                                                         *)
(* One set of variables carries four specifications:                       *)
(*   Spec        the store: load / add / save against both sinks           *)
(*   SpecRepo    make_repo applied to tables drawn from a bounded set      *)
(*   SpecScrape  _scrape_data paging through a fund's history              *)
(*   SpecMain    the run of __main__                                       *)
(*                                                                         *)
(* Numbers.  A Return is held in hundredths (20 stands for 0.20) and a     *)
(* computed quotient or product as an exact fraction <<num, den>>, so the  *)
(* model abstracts from floating-point rounding and from nothing else.     *)
(***************************************************************************)
EXTENDS Integers, Sequences, FiniteSets, TLC

VARIABLES
    \* ---- DBFund object (src/quantinv.py:170-190)
    local,      \* self.local
    pdata,      \* self.pdata: the working table, a sequence of rows
    pcols,      \* whether self.pdata has columns (pd.DataFrame() has none)
    db_conn,    \* self.db_conn: FALSE is None, TRUE is an open connection
    \* ---- the sinks and their environment
    csvFile,    \* PATH_LDB: [exists, header, rows]
    dbTable,    \* table NAME_TAB of PATH_SQL: [exists, rows]
    dbOpenable, \* whether sqlite3.connect(PATH_SQL) succeeds
    \* ---- what the caller of the store saw last
    lastOp,     \* "init", "load", "add", "save"
    raised,     \* the last call ended in an exception
    lastLen,    \* rows in the batch of the last add
    lastNew,    \* rows the last call added to the working table
    loaded,     \* a load() has returned normally
    dirty,      \* an add() has returned normally since load() last did
    \* ---- make_repo
    repo,       \* the report built last
    \* ---- EMFund._scrape_data
    hist,       \* the fund's history on the server, newest first
    data,       \* self.data
    page,       \* idx of the page loop
    \* ---- __main__
    pc,         \* position of the run, or of _scrape_data
    fundIdx,    \* i of inject_to_db's loop
    fetchOk,    \* per fund, whether get_data() succeeds
    failedAt,   \* the fund whose get_data() raised, 0 if none
    saved,      \* db.save() was reached
    reports     \* how many make_repo calls were reached

storeVars  == <<local, pdata, pcols, db_conn, csvFile, dbTable, dbOpenable>>
callVars   == <<lastOp, raised, lastLen, lastNew, loaded, dirty>>
repoVars   == <<repo>>
scrapeVars == <<hist, data, page>>
mainVars   == <<pc, fundIdx, fetchOk, failedAt, saved, reports>>
vars == <<storeVars, callVars, repoVars, scrapeVars, mainVars>>

----------------------------------------------------------------------------
(* Bounds of the model *)

\* longest batch handed to add()
MaxBatch == 2

\* fund codes, trading days and return values (hundredths) of the store model
Codes == {"000001", "000002"}
Days == {"2023-01-02"}
Vals == {0, 20}

\* Two rows that share a key and differ in value, and one row of another key.
Rows ==
    {r \in [Code : Codes, TradingDay : Days, Return : Vals] :
        r.Code = "000001" \/ r.Return = 0}

RECURSIVE SeqsUpTo(_, _)
SeqsUpTo(S, n) ==
    IF n = 0 THEN {<<>>}
    ELSE LET shorter == SeqsUpTo(S, n - 1)
         IN  shorter \cup {Append(s, x) : s \in {t \in shorter : Len(t) = n - 1}, x \in S}

Batches == SeqsUpTo(Rows, MaxBatch)

\* A sink that does not exist.
NoFile == [exists |-> FALSE, header |-> FALSE, rows |-> <<>>]
NoTable == [exists |-> FALSE, rows |-> <<>>]

----------------------------------------------------------------------------
(* DBFund: the store *)

\* The store's state as one value, so that the operations are functions of it.
Store ==
    [pdata |-> pdata, pcols |-> pcols, db_conn |-> db_conn,
     csvFile |-> csvFile, dbTable |-> dbTable, err |-> FALSE]

\* How a call ends: it returns, or an exception leaves it.
Returns(s) == [s EXCEPT !.err = FALSE]
Raises(s) == [s EXCEPT !.err = TRUE]

\* Code + TradingDay, the dedup key of add(): a string concatenation.
Key(r) == r.Code \o r.TradingDay

KeysOf(tbl) == {Key(tbl[i]) : i \in DOMAIN tbl}

\* connect(): a failure is logged and swallowed, db_conn stays None.
connect(s) == [s EXCEPT !.db_conn = dbOpenable]

\* DataFrame.to_csv(PATH_LDB, index=False): a header line when the frame has
\* columns, then one line per row.
to_csv(tbl, cols) == [exists |-> TRUE, header |-> cols, rows |-> tbl]

\* A Code cell read under dtype={"Code": str}: the text as it stands.
CodeCell(cell) == cell

\* pd.read_csv(PATH_LDB, dtype={"Code": str}): TradingDay stays text, Return
\* is parsed back to the number to_csv printed.
read_csv(file) ==
    [i \in DOMAIN file.rows |-> [file.rows[i] EXCEPT !.Code = CodeCell(@)]]

\* load()
load(s) ==
    IF local
    THEN IF ~s.csvFile.exists
         THEN Returns(s)
         ELSE IF ~s.csvFile.header
              \* pd.read_csv finds no columns to parse: EmptyDataError
              THEN Raises(s)
              ELSE Returns([s EXCEPT !.pdata = read_csv(s.csvFile), !.pcols = TRUE])
    ELSE LET c == IF s.db_conn THEN s ELSE connect(s)
         IN  IF ~c.db_conn
             \* pd.read_sql_query(query, None) raises on the missing connection
             THEN Raises(c)
             ELSE IF ~c.dbTable.exists
                  \* no such table: Return
                  THEN Raises(c)
                  ELSE Returns([c EXCEPT !.pdata = c.dbTable.rows, !.pcols = TRUE])

\* empty()
empty(s) == Len(s.pdata) = 0

\* (the slip of appending the batch unfiltered)
NewRowsAll(pd, tmp) == tmp

\* The rows of tmp that add() keeps.
NewRows(pd, tmp) ==
    IF Len(pd) = 0
    THEN tmp
    ELSE SelectSeq(tmp, LAMBDA r : Key(r) \notin KeysOf(pd))

\* DataFrame.to_sql(NAME_TAB, conn, if_exists="append"): creates the table
\* when it is missing, appends the rows and commits.
to_sql(tbl, new) == [exists |-> TRUE, rows |-> tbl.rows \o new]

\* add(fund)
add(s, tmp) ==
    LET new == NewRows(s.pdata, tmp)
    IN  IF local
        THEN Returns([s EXCEPT !.pdata = s.pdata \o new, !.pcols = TRUE])
        ELSE LET c == IF s.db_conn THEN s ELSE connect(s)
             IN  IF ~c.db_conn
                 \* new.to_sql(NAME_TAB, None, ...) raises before pdata changes
                 THEN Raises(c)
                 ELSE Returns([c EXCEPT !.dbTable = to_sql(c.dbTable, new),
                                       !.pdata = c.pdata \o new, !.pcols = TRUE])

\* save()
save(s) ==
    IF local
    THEN Returns([s EXCEPT !.csvFile = to_csv(s.pdata, s.pcols)])
    ELSE Returns(s)  \* commit() when connected: to_sql has committed every append

\* The store's variables take the values of s.
Becomes(s) ==
    /\ pdata' = s.pdata
    /\ pcols' = s.pcols
    /\ db_conn' = s.db_conn
    /\ csvFile' = s.csvFile
    /\ dbTable' = s.dbTable
    /\ raised' = s.err
    /\ UNCHANGED <<local, dbOpenable>>

\* A call of the store has ended in s: what its caller saw.
StoreCall(s, op, tmp) ==
    /\ Becomes(s)
    /\ lastOp' = op
    /\ lastLen' = Len(tmp)
    /\ lastNew' = Len(s.pdata) - Len(pdata)
    /\ loaded' = (loaded \/ (op = "load" /\ ~s.err))
    /\ dirty' = CASE op = "load" -> (dirty /\ s.err)
                  [] op = "add" -> (dirty \/ ~s.err)
                  [] OTHER -> dirty

\* The caller's protocol, as in __main__: load() is the first call on a store.
Load ==
    /\ StoreCall(load(Store), "load", <<>>)
    /\ UNCHANGED <<repoVars, scrapeVars, mainVars>>

Add(tmp) ==
    /\ lastOp # "init"
    /\ StoreCall(add(Store, tmp), "add", tmp)
    /\ UNCHANGED <<repoVars, scrapeVars, mainVars>>

Save ==
    /\ lastOp # "init"
    /\ StoreCall(save(Store), "save", <<>>)
    /\ UNCHANGED <<repoVars, scrapeVars, mainVars>>

\* Values of the variables a specification does not use.
IdleCalls ==
    /\ lastOp = "init" /\ raised = FALSE /\ lastLen = 0
    /\ lastNew = 0 /\ loaded = FALSE /\ dirty = FALSE
IdleRepo == repo = [kind |-> "none", rows |-> {}]
IdleScrape == hist = <<>> /\ data = <<>> /\ page = 0
IdleRun == fundIdx = 0 /\ failedAt = 0 /\ saved = FALSE /\ reports = 0
IdleMain == pc = "idle" /\ fetchOk = <<>> /\ IdleRun

\* DBFund(local) on a machine whose sinks hold what an earlier run left there.
SinkTables == {<<>>} \cup {<<r>> : r \in Rows}

Init ==
    /\ local \in BOOLEAN
    /\ pdata = <<>> /\ pcols = FALSE /\ db_conn = FALSE
    /\ dbOpenable \in BOOLEAN
    /\ IF local
       THEN /\ csvFile \in {NoFile} \cup {to_csv(t, TRUE) : t \in SinkTables}
            /\ dbTable = NoTable
       ELSE /\ csvFile = NoFile
            /\ dbTable \in {NoTable} \cup {to_sql(NoTable, t) : t \in SinkTables}
    /\ IdleCalls /\ IdleRepo /\ IdleScrape /\ IdleMain

Next ==
    \/ Load
    \/ \E tmp \in Batches : Add(tmp)
    \/ Save

Spec == Init /\ [][Next]_vars

----------------------------------------------------------------------------
(* Text and numbers *)

\* The order of the characters of a trading day, as their code points.
CharOrd(c) ==
    CASE c = "-" -> 0
      [] c = "0" -> 1 [] c = "1" -> 2 [] c = "2" -> 3 [] c = "3" -> 4
      [] c = "4" -> 5 [] c = "5" -> 6 [] c = "6" -> 7 [] c = "7" -> 8
      [] c = "8" -> 9 [] c = "9" -> 10

\* a < b on strings, as sort_values compares the TradingDay column.
RECURSIVE StrLess(_, _)
StrLess(a, b) ==
    IF Len(b) = 0 THEN FALSE
    ELSE IF Len(a) = 0 THEN TRUE
    ELSE LET x == CharOrd(SubSeq(a, 1, 1))
             y == CharOrd(SubSeq(b, 1, 1))
         IN  IF x # y THEN x < y
             ELSE StrLess(SubSeq(a, 2, Len(a)), SubSeq(b, 2, Len(b)))

\* The number a string of digits writes.
RECURSIVE ToInt(_)
ToInt(str) ==
    IF Len(str) = 0 THEN 0
    ELSE 10 * ToInt(SubSeq(str, 1, Len(str) - 1))
           + (CharOrd(SubSeq(str, Len(str), Len(str))) - 1)

\* pd.to_datetime("YYYY-MM-DD") as a count of days: the proleptic Gregorian
\* calendar, days since 1970-01-01.
to_datetime(day) ==
    LET y0 == ToInt(SubSeq(day, 1, 4))
        m == ToInt(SubSeq(day, 6, 7))
        d == ToInt(SubSeq(day, 9, 10))
        y == IF m <= 2 THEN y0 - 1 ELSE y0
        era == y \div 400
        yoe == y - era * 400
        mp == (m + 9) % 12
        doy == (153 * mp + 2) \div 5 + d - 1
        doe == yoe * 365 + yoe \div 4 - yoe \div 100 + doy
    IN  era * 146097 + doe - 719468

\* Fractions <<num, den>> in lowest terms, den >= 0.  A zero denominator is
\* what a float division by zero leaves: <<0, 0>> is nan, <<1, 0>> inf,
\* <<-1, 0>> -inf.
Sign(n) == IF n > 0 THEN 1 ELSE IF n < 0 THEN -1 ELSE 0

RECURSIVE GCD(_, _)
GCD(a, b) == IF b = 0 THEN a ELSE GCD(b, a % b)

Norm(a) ==
    IF a[2] = 0 THEN <<Sign(a[1]), 0>>
    ELSE LET g == GCD(a[1] * Sign(a[1]), a[2])
         IN  <<a[1] \div g, a[2] \div g>>

FMul(a, b) == Norm(<<a[1] * b[1], a[2] * b[2]>>)

FDivInt(a, k) ==
    IF k < 0 THEN Norm(<<-a[1], a[2] * (-k)>>) ELSE Norm(<<a[1], a[2] * k>>)

FMulInt(a, k) == Norm(<<a[1] * k, a[2]>>)

FSub1(a) == Norm(<<a[1] - a[2], a[2]>>)

FracEq(a, b) == Norm(a) = Norm(b)

\* Return + 1, a Return being held in hundredths.
Plus1(r) == Norm(<<100 + r, 100>>)

\* (returns + 1).prod(): the product in the order of the sequence, 1 when it
\* is empty.
RECURSIVE prod(_)
prod(rs) ==
    IF Len(rs) = 0 THEN <<1, 1>> ELSE FMul(Plus1(Head(rs)), prod(Tail(rs)))

----------------------------------------------------------------------------
(* DBFund.make_repo *)

\* number of calendar days of a year, and of trading days (the latter enters
\* the Sharpe ratio only)
YEAR_TNR == 365
BDAY_TNR == 252

\* str.slice(0, 4) and str.slice(5, 7) of a trading day
YearOf(day) == SubSeq(day, 1, 4)
MonthOf(day) == SubSeq(day, 6, 7)

ReturnsOf(tbl) == [i \in DOMAIN tbl |-> tbl[i].Return]

\* The arrangements of the rows of cut at the indices I, newest day first.
RECURSIVE Descending(_, _)
Descending(cut, I) ==
    IF I = {} THEN {<<>>}
    ELSE LET newest == {i \in I : \A j \in I :
                           ~StrLess(cut[i].TradingDay, cut[j].TradingDay)}
         IN  UNION {{<<cut[i]>> \o t : t \in Descending(cut, I \ {i})} :
                       i \in newest}

\* cut.sort_values(["TradingDay"], ascending=False): the default sort is not
\* stable, so rows of one day may come out in any order.
sort_values(cut) == Descending(cut, DOMAIN cut)

\* (values[1:], the slip of dropping the newest row instead)
ButFirst(s) == SubSeq(s, 2, Len(s))

\* values[:-1]: all but the last, which after the descending sort is the
\* earliest.
ButLast(s) == SubSeq(s, 1, Len(s) - 1)

\* The return of one period from its rows, sorted newest first.
PeriodReturn(sorted) == FSub1(prod(ButLast(ReturnsOf(sorted))))

\* cnt: the days from the oldest row to the newest of the sorted fund.
AgeDays(sorted) ==
    to_datetime(sorted[1].TradingDay) - to_datetime(sorted[Len(sorted)].TradingDay)

\* (the slip of annualizing by trading days)
AnnualizeBday(total, cnt) == FMulInt(FDivInt(total, cnt), BDAY_TNR)

\* TotalReturn / cnt * YEAR_TNR
Annualize(total, cnt) == FMulInt(FDivInt(total, cnt), YEAR_TNR)

\* One row of the annual report: a fund's rows sorted newest first.
YearRow(cc, sorted) ==
    LET total == FSub1(prod(ReturnsOf(sorted)))
        years == {YearOf(sorted[i].TradingDay) : i \in DOMAIN sorted}
    IN  [Code |-> cc,
         TotalReturn |-> total,
         YearReturn |-> Annualize(total, AgeDays(sorted)),
         Years |-> [yy \in years |->
                      PeriodReturn(SelectSeq(sorted,
                          LAMBDA r : YearOf(r.TradingDay) = yy))]]

\* One row of the monthly report: the rows of a (Code, year, month) group.
MonthRow(key, sorted) ==
    [Code |-> key[1], Year |-> key[2], Month |-> key[3],
     Return |-> PeriodReturn(sorted)]

\* One choice from each of the sets pick[k], as the set of what was chosen.
RECURSIVE OneOfEach(_, _)
OneOfEach(keys, pick) ==
    IF keys = {} THEN {{}}
    ELSE LET k == CHOOSE x \in keys : TRUE
         IN  {rest \cup {row} : rest \in OneOfEach(keys \ {k}, pick), row \in pick[k]}

\* make_repo(month): the reports it can return for table tbl (more than one
\* only where rows of one fund share a day).  The order of the report's rows
\* is left out.
make_repo(tbl, month) ==
    IF month
    THEN LET keys == {<<tbl[i].Code, YearOf(tbl[i].TradingDay),
                        MonthOf(tbl[i].TradingDay)>> : i \in DOMAIN tbl}
             cut(k) == SelectSeq(tbl, LAMBDA r :
                           <<r.Code, YearOf(r.TradingDay), MonthOf(r.TradingDay)>> = k)
             rows(k) == {MonthRow(k, s) : s \in sort_values(cut(k))}
         IN  OneOfEach(keys, [k \in keys |-> rows(k)])
    ELSE LET codes == {tbl[i].Code : i \in DOMAIN tbl}
             cut(cc) == SelectSeq(tbl, LAMBDA r : r.Code = cc)
             rows(cc) == {YearRow(cc, s) : s \in sort_values(cut(cc))}
         IN  OneOfEach(codes, [cc \in codes |-> rows(cc)])

YearRepo ==
    /\ \E r \in make_repo(pdata, FALSE) : repo' = [kind |-> "year", rows |-> r]
    /\ UNCHANGED <<storeVars, callVars, scrapeVars, mainVars>>

MonthRepo ==
    /\ \E r \in make_repo(pdata, TRUE) : repo' = [kind |-> "month", rows |-> r]
    /\ UNCHANGED <<storeVars, callVars, scrapeVars, mainVars>>

\* longest table handed to make_repo
MaxRepoRows == 3

RepoDays == {"2023-01-02", "2023-01-03", "2023-02-01", "2025-01-01"}

\* One fund on every day with either value, and one row of a second fund.
RepoRows ==
    {r \in [Code : Codes, TradingDay : RepoDays, Return : Vals] :
        r.Code = "000001" \/ (r.Return = 20 /\ r.TradingDay = "2023-01-03")}

RepoTables == SeqsUpTo(RepoRows, MaxRepoRows) \ {<<>>}

IdleStore ==
    /\ local = TRUE /\ pcols = TRUE /\ db_conn = FALSE /\ dbOpenable = TRUE
    /\ csvFile = NoFile /\ dbTable = NoTable

InitRepo ==
    /\ pdata \in RepoTables
    /\ IdleStore /\ IdleCalls /\ IdleRepo /\ IdleScrape /\ IdleMain

NextRepo == YearRepo \/ MonthRepo

SpecRepo == InitRepo /\ [][NextRepo]_vars

----------------------------------------------------------------------------
(* EMFund._scrape_data *)

\* The rows of one page of the history endpoint.  The source asks for 1000;
\* the model pages by 2 so that a history within MaxHist spans pages.
PAGESIZE == 2

\* longest history on the server
MaxHist == 3

\* cumulative NAV values of the histories
CumVals == {99, 100, 102}

\* The histories the server can hold, newest first; FSRQ counts the fund's
\* trading days from its first, 1.
Histories ==
    UNION {{[k \in 1..n |-> [FSRQ |-> n - k + 1, LJJZ |-> c[k]]] :
               c \in [1..n -> CumVals]} : n \in 0..MaxHist}

\* math.ceil(cnt / size)
Ceil(cnt, size) == (cnt + size - 1) \div size

\* The LSJZList of page idx + 1.
PageOf(h, idx) ==
    SubSeq(h, idx * PAGESIZE + 1,
           IF (idx + 1) * PAGESIZE < Len(h) THEN (idx + 1) * PAGESIZE ELSE Len(h))

\* One page with its JZZZL derived: (LJJZ - LJJZ.shift(-1)) / LJJZ.shift(-1),
\* and the last row of the page set to 0.
Derive(tmp) ==
    [k \in DOMAIN tmp |->
        [FSRQ |-> tmp[k].FSRQ,
         LJJZ |-> tmp[k].LJJZ,
         JZZZL |-> IF k = Len(tmp) THEN <<0, 1>>
                   ELSE Norm(<<tmp[k].LJJZ - tmp[k + 1].LJJZ, tmp[k + 1].LJJZ>>)]]

\* The first request: TotalCount gives the number of pages.
ScrapeMeta ==
    /\ pc = "scrape_meta"
    /\ page' = 0
    /\ pc' = IF Ceil(Len(hist), PAGESIZE) = 0 THEN "scraped" ELSE "scrape_pages"
    /\ UNCHANGED <<hist, data, fundIdx, fetchOk, failedAt, saved, reports>>
    /\ UNCHANGED <<storeVars, callVars, repoVars>>

\* One turn of the page loop.
ScrapePage ==
    /\ pc = "scrape_pages"
    /\ data' = data \o Derive(PageOf(hist, page))
    /\ page' = page + 1
    /\ pc' = IF page + 1 = Ceil(Len(hist), PAGESIZE) THEN "scraped" ELSE "scrape_pages"
    /\ UNCHANGED <<hist, fundIdx, fetchOk, failedAt, saved, reports>>
    /\ UNCHANGED <<storeVars, callVars, repoVars>>

\* A response that cannot be parsed, or carries no TotalCount: ValueError or
\* KeyError leaves _scrape_data.
ScrapeRaise ==
    /\ pc \in {"scrape_meta", "scrape_pages"}
    /\ pc' = "scrape_raised"
    /\ UNCHANGED <<hist, data, page, fundIdx, fetchOk, failedAt, saved, reports>>
    /\ UNCHANGED <<storeVars, callVars, repoVars>>

InitScrape ==
    /\ hist \in Histories
    /\ data = <<>> /\ page = 0
    /\ pc = "scrape_meta" /\ fetchOk = <<>> /\ IdleRun
    /\ IdleStore /\ IdleCalls /\ IdleRepo /\ pdata = <<>>

NextScrape == ScrapeMeta \/ ScrapePage \/ ScrapeRaise

SpecScrape == InitScrape /\ [][NextScrape]_vars

----------------------------------------------------------------------------
(* __main__ and inject_to_db *)

\* number of funds inject_to_db takes from the list page
FUND_NUM == 20

\* most funds on the list page
MaxFunds == 2

FundCodes == <<"000001", "000002", "000003", "000004">>

\* What get_data() and format_dataframe() give for the i-th fund of the
\* list page: its history, newest first.
FundData(i) ==
    <<[Code |-> FundCodes[i], TradingDay |-> "2023-01-03", Return |-> 20],
      [Code |-> FundCodes[i], TradingDay |-> "2023-01-02", Return |-> 0]>>

Min(a, b) == IF a < b THEN a ELSE b

\* db = DBFund(args.local); db.load().  No handler: an exception ends the run.
MainLoad ==
    /\ pc = "start"
    /\ LET s == load(Store)
       IN  /\ StoreCall(s, "load", <<>>)
           /\ pc' = IF s.err THEN "crashed" ELSE "loaded"
    /\ UNCHANGED <<fundIdx, fetchOk, failedAt, saved, reports>>
    /\ UNCHANGED <<repoVars, scrapeVars>>

\* if db.empty(): inject, else go on to the reports.
MainEmpty ==
    /\ pc = "loaded"
    /\ pc' = IF empty(Store) THEN "inject" ELSE "year_repo"
    /\ UNCHANGED <<fundIdx, fetchOk, failedAt, saved, reports>>
    /\ UNCHANGED <<storeVars, callVars, repoVars, scrapeVars>>

\* One turn of inject_to_db's loop: get_data(), db.add(fund), export_data.
\* A failing get_data() raises out of the loop, out of inject_to_db and out
\* of the run.
InjectFund ==
    /\ pc = "inject"
    /\ fundIdx < Min(Len(fetchOk), FUND_NUM)
    /\ LET i == fundIdx + 1
       IN  IF ~fetchOk[i]
           THEN /\ failedAt' = i
                /\ pc' = "crashed"
                /\ UNCHANGED <<fundIdx, storeVars, callVars>>
           ELSE LET s == add(Store, FundData(i))
                IN  /\ StoreCall(s, "add", FundData(i))
                    /\ pc' = IF s.err THEN "crashed" ELSE "inject"
                    /\ fundIdx' = IF s.err THEN fundIdx ELSE i
                    /\ UNCHANGED failedAt
    /\ UNCHANGED <<fetchOk, saved, reports>>
    /\ UNCHANGED <<repoVars, scrapeVars>>

\* The loop has ended; db.save().
MainSave ==
    /\ pc = "inject"
    /\ fundIdx = Min(Len(fetchOk), FUND_NUM)
    /\ StoreCall(save(Store), "save", <<>>)
    /\ saved' = TRUE
    /\ pc' = "year_repo"
    /\ UNCHANGED <<fundIdx, fetchOk, failedAt, reports>>
    /\ UNCHANGED <<repoVars, scrapeVars>>

\* d1 = db.make_repo(month=False): a table without columns raises KeyError.
MainYearRepo ==
    /\ pc = "year_repo"
    /\ IF ~pcols
       THEN pc' = "crashed" /\ UNCHANGED <<repo, reports>>
       ELSE /\ \E r \in make_repo(pdata, FALSE) : repo' = [kind |-> "year", rows |-> r]
            /\ reports' = 1
            /\ pc' = "month_repo"
    /\ UNCHANGED <<fundIdx, fetchOk, failedAt, saved>>
    /\ UNCHANGED <<storeVars, callVars, scrapeVars>>

\* d2 = db.make_repo(month=True); sys.exit(0)
MainMonthRepo ==
    /\ pc = "month_repo"
    /\ \E r \in make_repo(pdata, TRUE) : repo' = [kind |-> "month", rows |-> r]
    /\ reports' = 2
    /\ pc' = "done"
    /\ UNCHANGED <<fundIdx, fetchOk, failedAt, saved>>
    /\ UNCHANGED <<storeVars, callVars, scrapeVars>>

InitMain ==
    /\ local \in BOOLEAN
    /\ pdata = <<>> /\ pcols = FALSE /\ db_conn = FALSE
    /\ dbOpenable \in BOOLEAN
    /\ IF local
       THEN /\ csvFile \in {NoFile} \cup {to_csv(t, TRUE) : t \in SinkTables}
            /\ dbTable = NoTable
       ELSE /\ csvFile = NoFile
            /\ dbTable \in {NoTable} \cup {to_sql(NoTable, t) : t \in SinkTables}
    /\ pc = "start"
    /\ fetchOk \in SeqsUpTo(BOOLEAN, MaxFunds)
    /\ IdleRun /\ IdleCalls /\ IdleRepo /\ IdleScrape

NextMain ==
    \/ MainLoad
    \/ MainEmpty
    \/ InjectFund
    \/ MainSave
    \/ MainYearRepo
    \/ MainMonthRepo

SpecMain == InitMain /\ [][NextMain]_vars

----------------------------------------------------------------------------
(* Properties of the store *)

SameKey(r, q) == r.Code = q.Code /\ r.TradingDay = q.TradingDay

KeyUnique(tbl) ==
    \A i, j \in DOMAIN tbl : SameKey(tbl[i], tbl[j]) => i = j

IsPrefix(s, t) == Len(s) <= Len(t) /\ SubSeq(t, 1, Len(s)) = s

Tail_(s, t) == SubSeq(t, Len(s) + 1, Len(t))

\* A later run of the program: a fresh DBFund object over the same sinks.
NewRun(s) == [s EXCEPT !.pdata = <<>>, !.pcols = FALSE, !.db_conn = FALSE]

SameTables(s, t) ==
    s.pdata = t.pdata /\ s.dbTable = t.dbTable /\ s.csvFile = t.csvFile

\* C1: once load() has returned, and after any sequence of add and save
\* calls with any batches, no two rows of the working table share a
\* (Code, TradingDay) key.
C1_KeyUniqueness == loaded => KeyUnique(pdata)

\* C2: merge is idempotent.  From every reachable store and for every batch
\* whose add() returns: a second add() of the batch returns and leaves the
\* working table and both sinks as the first left them; and after save() and
\* a load() by a later run, an add() of the batch again appends no row.
C2_MergeIdempotent ==
    \A b \in Batches :
        LET s1 == add(Store, b)
            s2 == add(s1, b)
            s3 == load(NewRun(save(s1)))
            s4 == add(s3, b)
        IN  ~s1.err =>
                /\ ~s2.err /\ SameTables(s2, s1)
                /\ ~s3.err /\ ~s4.err /\ SameTables(s4, s3)

\* C2 witness: an add() of a full-length batch has just returned having
\* appended nothing, every key of it being in the store already.
C2_Witness ==
    /\ lastOp = "add" /\ ~raised /\ loaded /\ dirty
    /\ lastLen = MaxBatch /\ lastNew = 0
    /\ Len(pdata) >= MaxBatch

\* C3: add() is append-only and first-writer-wins.  Every add() that returns
\* on a loaded, key-unique store keeps the rows that were there, in the working table
\* and in the persisted table, appends exactly the batch rows whose key was
\* absent, and leaves every key in the store exactly once.
C3_FirstWriterWins ==
    [][\A tmp \in Batches :
          (Add(tmp) /\ ~raised' /\ loaded /\ KeyUnique(pdata)) =>
              /\ IsPrefix(pdata, pdata')
              /\ IsPrefix(dbTable.rows, dbTable'.rows)
              /\ Tail_(pdata, pdata') =
                     SelectSeq(tmp, LAMBDA r :
                         \A i \in DOMAIN pdata : ~SameKey(r, pdata[i]))
              /\ KeyUnique(pdata')]_vars

\* The sink of the configured mode does not exist.
SinkMissing == IF local THEN ~csvFile.exists ELSE ~dbTable.exists

\* C7: load() on a sink that does not exist returns and leaves the store
\* empty, in either mode (the database itself can be opened).
C7_EmptyBootstrap ==
    [][(Load /\ SinkMissing /\ dbOpenable) =>
          (~raised' /\ Len(pdata') = 0)]_vars

\* C8: save() with nothing merged since load() raises nothing and leaves the
\* working table and the sinks as they were.
C8_SaveNoop ==
    [][(Save /\ ~dirty) =>
          (~raised' /\ pdata' = pdata /\ csvFile' = csvFile
                    /\ dbTable' = dbTable)]_vars

\* C10: in relational mode, when the connection cannot be established, every
\* one of load(), add() and save() ends in an exception.
C10_ConnFailureSurfaces ==
    (~local /\ ~dbOpenable /\ lastOp # "init") => raised

----------------------------------------------------------------------------
(* Properties of the reports *)

\* The product of (1 + Return) over the rows of tbl at the indices I.
RECURSIVE ProdOver(_, _)
ProdOver(tbl, I) ==
    IF I = {} THEN <<1, 1>>
    ELSE LET i == CHOOSE k \in I : TRUE
         IN  FMul(Plus1(tbl[i].Return), ProdOver(tbl, I \ {i}))

DayOf(tbl, i) == to_datetime(tbl[i].TradingDay)

\* The indices of I whose row is chronologically earliest, resp. latest.
Earliest(tbl, I) == {e \in I : \A i \in I : DayOf(tbl, e) <= DayOf(tbl, i)}
Latest(tbl, I) == {e \in I : \A i \in I : DayOf(tbl, e) >= DayOf(tbl, i)}

FundRows(tbl, cc) == {i \in DOMAIN tbl : tbl[i].Code = cc}
YearRows(tbl, cc, yy) ==
    {i \in FundRows(tbl, cc) : YearOf(tbl[i].TradingDay) = yy}
MonthRows(tbl, cc, yy, mm) ==
    {i \in YearRows(tbl, cc, yy) : MonthOf(tbl[i].TradingDay) = mm}

\* f is the compounded return of bucket I without one earliest row of it;
\* it is 0 when the bucket has a single row.
Compounds(f, tbl, I) ==
    /\ \E e \in Earliest(tbl, I) : FracEq(f, FSub1(ProdOver(tbl, I \ {e})))
    /\ Cardinality(I) = 1 => FracEq(f, <<0, 1>>)

\* C4: the annual report has one row per fund with one period return per
\* calendar year of the fund, the monthly report one row per (fund, year,
\* month); each period return is the product of (1 + Return) over the rows
\* of the bucket except its earliest row, minus 1, wherever the rows are
\* stored, and 0 for a bucket of one row.
C4_PeriodCompounding ==
    /\ repo.kind = "year" =>
        /\ {r.Code : r \in repo.rows} = {pdata[i].Code : i \in DOMAIN pdata}
        /\ Cardinality(repo.rows) = Cardinality({pdata[i].Code : i \in DOMAIN pdata})
        /\ \A r \in repo.rows :
            /\ DOMAIN r.Years =
                   {YearOf(pdata[i].TradingDay) : i \in FundRows(pdata, r.Code)}
            /\ \A yy \in DOMAIN r.Years :
                   Compounds(r.Years[yy], pdata, YearRows(pdata, r.Code, yy))
    /\ repo.kind = "month" =>
        /\ {<<r.Code, r.Year, r.Month>> : r \in repo.rows} =
               {<<pdata[i].Code, YearOf(pdata[i].TradingDay),
                  MonthOf(pdata[i].TradingDay)>> : i \in DOMAIN pdata}
        /\ Cardinality(repo.rows) =
               Cardinality({<<r.Code, r.Year, r.Month>> : r \in repo.rows})
        /\ \A r \in repo.rows :
               Compounds(r.Return, pdata, MonthRows(pdata, r.Code, r.Year, r.Month))

\* C4 witness: three rows of one fund and year stored with the earliest in
\* the middle; the year's return compounds the other two, 1.2 * 1.0 - 1.
C4_Witness ==
    /\ repo.kind = "year"
    /\ pdata = <<[Code |-> "000001", TradingDay |-> "2023-01-03", Return |-> 20],
                 [Code |-> "000001", TradingDay |-> "2023-01-02", Return |-> 20],
                 [Code |-> "000001", TradingDay |-> "2023-02-01", Return |-> 0]>>
    /\ \E r \in repo.rows : FracEq(r.Years["2023"], <<20, 100>>)

\* C6: for every fund of the annual report, TotalReturn is the product of
\* (1 + Return) over all its rows minus 1, and YearReturn is TotalReturn /
\* ageDays * 365 with ageDays the calendar days from the fund's earliest to
\* its latest trading day, wherever the rows are stored.  With ageDays = 0
\* the quotient is the float division by zero.
C6_Annualization ==
    repo.kind = "year" =>
        \A r \in repo.rows :
            LET I == FundRows(pdata, r.Code)
                total == FSub1(ProdOver(pdata, I))
                first == CHOOSE e \in Earliest(pdata, I) : TRUE
                last == CHOOSE e \in Latest(pdata, I) : TRUE
                ageDays == DayOf(pdata, last) - DayOf(pdata, first)
            IN  /\ FracEq(r.TotalReturn, total)
                /\ IF ageDays > 0
                   THEN FracEq(r.YearReturn, <<total[1] * 365, total[2] * ageDays>>)
                   ELSE r.YearReturn[2] = 0

\* C6 witness: a fund stored oldest row first whose rows lie 730 days apart
\* and compound to 0.20; its annualized return is 0.10.
C6_Witness ==
    /\ repo.kind = "year"
    /\ pdata = <<[Code |-> "000001", TradingDay |-> "2023-01-02", Return |-> 0],
                 [Code |-> "000001", TradingDay |-> "2025-01-01", Return |-> 20]>>
    /\ to_datetime("2025-01-01") - to_datetime("2023-01-02") = 730
    /\ \E r \in repo.rows :
           /\ FracEq(r.TotalReturn, <<20, 100>>)
           /\ FracEq(r.YearReturn, <<10, 100>>)

----------------------------------------------------------------------------
(* Properties of the scraper and of the run *)

\* C5: when _scrape_data returns, every trading day of the fund but its
\* earliest carries (cumNav[d] - cumNav[d-1]) / cumNav[d-1], d-1 being the
\* trading day before d, and the earliest carries 0, over however many pages
\* the history came in.
C5_ReturnDerivation ==
    pc = "scraped" =>
        /\ Len(data) = Len(hist)
        /\ \A k \in DOMAIN data :
            /\ data[k].FSRQ = hist[k].FSRQ
            /\ data[k].JZZZL =
                   IF k = Len(hist) THEN <<0, 1>>
                   ELSE Norm(<<hist[k].LJJZ - hist[k + 1].LJJZ, hist[k + 1].LJJZ>>)

\* C9: a run in which get_data() failed for a fund still ends normally,
\* having reached save() and both reports, with every fund whose fetch
\* succeeds merged.
C9_FundScopedFailure ==
    (failedAt # 0 /\ pc \in {"done", "crashed"}) =>
        /\ pc = "done" /\ saved /\ reports = 2
        /\ \A j \in DOMAIN fetchOk :
               fetchOk[j] => \E i \in DOMAIN pdata : pdata[i].Code = FundCodes[j]

====
